---- MODULE Spec2Model ----
(***************************************************************************)
(* Model of src/t56.c, the low level operations of the T56 programmer.     *)
(*                                                                         *)
(* Every public operation of t56.c is one action.  The operations are      *)
(* single-threaded and synchronous, so an action runs the whole handler:   *)
(* it makes the handler's transport calls in order, each with an outcome   *)
(* chosen by the environment (msg_send, msg_recv, get_algorithm and the    *)
(* bb_* alternate implementation are external), and records them in        *)
(* `calls`.                                                                *)
(***************************************************************************)
EXTENDS Integers, Sequences, FiniteSets, TLC

\* ---------------------------------------------------------------- bounds
\* The largest memory / fuse kind value passed in; 0..2 are the known kinds.
MaxKind == 3

\* ------------------------------------------------------------- constants
T56_BEGIN_TRANS == 3
T56_END_TRANS == 4
T56_READID == 5
T56_READ_USER == 6
T56_WRITE_USER == 7
T56_READ_CFG == 8
T56_WRITE_CFG == 9
T56_WRITE_USER_DATA == 10
T56_READ_USER_DATA == 11
T56_WRITE_CODE == 12
T56_READ_CODE == 13
T56_ERASE == 14
T56_READ_DATA == 16
T56_WRITE_DATA == 17
T56_WRITE_LOCK == 20
T56_READ_LOCK == 21
T56_READ_CALIBRATION == 22
T56_PROTECT_OFF == 24
T56_PROTECT_ON == 25
T56_READ_JEDEC == 29
T56_WRITE_JEDEC == 30
T56_WRITE_BITSTREAM == 38
T56_AUTODETECT == 55
T56_REQUEST_STATUS == 57

\* Memory and fuse kinds of minipro.h.  t56.c only compares type against
\* them, so all that matters here is that the three of a family differ.
MP_CODE == 0
MP_DATA == 1
MP_USER == 2
MP_FUSE_USER == 0
MP_FUSE_CFG == 1
MP_FUSE_LOCK == 2

EXIT_SUCCESS == 0
EXIT_FAILURE == 1

\* ---------------------------------------------------------------- inputs
\* Return codes of msg_send / msg_recv / bb_*: zero is success.
RCs == {EXIT_SUCCESS, EXIT_FAILURE}
\* Byte 12 of the status response (the overcurrent byte).
OvcBytes == {0, 1, 128}
\* Kinds passed to read_block / write_block / read_fuses / write_fuses.
Kinds == 0..MaxKind
\* Lengths passed to read_block / write_block / read_calibration.
BlockLens == {16, 64}
\* Device descriptors of the database that a handle can point to.
Targets == [custom_protocol : BOOLEAN, write_buffer_size : {64, 128}]

VARIABLES
    bitstream_uploaded, \* the static flag of t56_send_bitstream
    device,             \* handle->device: "null", "target", or "local"
                        \* (the address of spi_autodetect's local descriptor,
                        \* dangling once spi_autodetect has returned)
    target,             \* the descriptor the caller selected for the handle
    last,               \* the last operation: name, arguments, result
    calls,              \* the external calls the last operation made, in order
    up_at_open,         \* the static flag's value when this handle was opened
    uploads,            \* bitstream payload sends that succeeded on this handle
    begins,             \* successful begin_transaction calls on this handle, up
                        \* to 2, while it has made no other call; else -1
    e2e,                \* progress of this handle through begin_transaction,
                        \* write_block(code, 64), end_transaction, with the
                        \* transport writes and reads made on the way
    wire,               \* the last native operation at byte level: arguments,
                        \* the message handed to msg_send, the outputs written
    fpga                \* the bitstream the programmer's FPGA holds: "none" or
                        \* the algorithm it was resolved from

vars == <<bitstream_uploaded, device, target, last, calls, up_at_open, uploads,
          begins, e2e, wire, fpga>>

\* ------------------------------------------------------ transport records
Send(op, buf, len, rc) ==
    [op |-> op, buf |-> buf, len |-> len, rc |-> rc, call |-> "msg_send"]

Recv(buf, len, rc) ==
    [op |-> 0, buf |-> buf, len |-> len, rc |-> rc, call |-> "msg_recv"]

\* A call into the alternate (bit-banged) implementation.
Alt(fn, rc) ==
    [op |-> 0, buf |-> "args", len |-> 0, rc |-> rc, call |-> fn]

IsTransport(c) == c.call \in {"msg_send", "msg_recv"}

IsAlt(c) == ~IsTransport(c)

\* The result of one operation.  ovc is the value written to *ovc (-1: not
\* written); status says whether the status record was written.
Result(cs, ret) ==
    [calls |-> cs, ret |-> ret, uploaded |-> FALSE, frees |-> 0,
     resolved |-> FALSE, ovc |-> -1, status |-> FALSE]

\* What reading a field through handle->device yields: the field of the
\* target, or anything once the pointer dangles.
DeviceField(dev, tgt, field, values) ==
    IF dev = "target" THEN {tgt[field]} ELSE values

\* ------------------------------------------------------ t56_send_bitstream
\* Lines 82-110: resolve the algorithm, send the 8-byte header and the
\* bitstream, free the bitstream, set the flag on full success.
upload_attempt_flag_before_payload(algOk, rcHdr, rcPay) ==
    LET hdr == Send(T56_WRITE_BITSTREAM, "msg", 8, rcHdr)
        pay == Send(0, "bitstream", 0, rcPay)
    IN  IF ~algOk
        THEN Result(<<>>, EXIT_FAILURE)
        ELSE IF rcHdr # 0
        THEN [Result(<<hdr>>, EXIT_FAILURE) EXCEPT !.frees = 1, !.resolved = TRUE]
        ELSE IF rcPay # 0
        THEN [Result(<<hdr, pay>>, EXIT_FAILURE)
                 EXCEPT !.frees = 1, !.resolved = TRUE, !.uploaded = TRUE]
        ELSE [Result(<<hdr, pay>>, EXIT_SUCCESS)
                 EXCEPT !.frees = 1, !.resolved = TRUE, !.uploaded = TRUE]

upload_attempt(algOk, rcHdr, rcPay) ==
    LET hdr == Send(T56_WRITE_BITSTREAM, "msg", 8, rcHdr)
        pay == Send(0, "bitstream", 0, rcPay)
    IN  IF ~algOk
        THEN Result(<<>>, EXIT_FAILURE)
        ELSE IF rcHdr # 0
        THEN [Result(<<hdr>>, EXIT_FAILURE) EXCEPT !.frees = 1, !.resolved = TRUE]
        ELSE IF rcPay # 0
        THEN [Result(<<hdr, pay>>, EXIT_FAILURE)
                 EXCEPT !.frees = 1, !.resolved = TRUE]
        ELSE [Result(<<hdr, pay>>, EXIT_SUCCESS)
                 EXCEPT !.frees = 1, !.resolved = TRUE, !.uploaded = TRUE]

send_bitstream_nocache(uploaded, algOk, rcHdr, rcPay) ==
    upload_attempt(algOk, rcHdr, rcPay)

t56_send_bitstream(uploaded, algOk, rcHdr, rcPay) ==
    IF uploaded
    THEN [Result(<<>>, EXIT_SUCCESS) EXCEPT !.uploaded = TRUE]
    ELSE upload_attempt(algOk, rcHdr, rcPay)

\* ------------------------------------------------------ t56_get_ovc_status
t56_get_ovc_status(hasStatus, cp, rcSend, rcRecv, byte12) ==
    LET req == Send(T56_REQUEST_STATUS, "msg", 8, rcSend)
        rsp == Recv("msg", 32, rcRecv)
    IN  IF rcSend # 0
        THEN Result(<<req>>, EXIT_FAILURE)
        ELSE IF rcRecv # 0
        THEN Result(<<req, rsp>>, EXIT_FAILURE)
        ELSE [Result(<<req, rsp>>, EXIT_SUCCESS)
                 EXCEPT !.ovc = byte12, !.status = hasStatus /\ ~cp]

\* --------------------------------------------------- t56_begin_transaction
\* Line 175: if (ovc).
ovc_tripped_eq1(ovc) == ovc = 1

ovc_tripped(ovc) == ovc # 0

\* Lines 126-171: the begin step, native message or alternate begin.
begin_step(cp, rcBegin) ==
    IF ~cp
    THEN Send(T56_BEGIN_TRANS, "msg", 64, rcBegin)
    ELSE Alt("bb_begin_transaction", rcBegin)

\* e: the environment's answers during the call (get_algorithm's success,
\* the return codes of the transport calls, byte 12 of the status response).
t56_begin_transaction(uploaded, cp, e) ==
    LET sb == t56_send_bitstream(uploaded, e.algOk, e.rcHdr, e.rcPay)
        st == t56_get_ovc_status(FALSE, cp, e.rcSend, e.rcRecv, e.byte12)
        sofar == sb.calls \o <<begin_step(cp, e.rcBegin)>>
    IN  IF sb.ret # 0
        THEN [sb EXCEPT !.ret = EXIT_FAILURE, !.frees = sb.frees + 1]
        ELSE IF e.rcBegin # 0
        THEN [sb EXCEPT !.calls = sofar, !.ret = EXIT_FAILURE]
        ELSE IF st.ret # 0
        THEN [sb EXCEPT !.calls = sofar \o st.calls, !.ret = EXIT_FAILURE]
        ELSE IF ovc_tripped(st.ovc)
        THEN [sb EXCEPT !.calls = sofar \o st.calls, !.ret = EXIT_FAILURE,
                        !.ovc = st.ovc]
        ELSE [sb EXCEPT !.calls = sofar \o st.calls, !.ret = EXIT_SUCCESS,
                        !.ovc = st.ovc]

\* ----------------------------------------------------- t56_end_transaction
end_transaction_fallback(cp, rc) ==
    IF cp
    THEN Result(<<Alt("bb_end_transaction", rc), Send(T56_END_TRANS, "msg", 8, rc)>>, rc)
    ELSE Result(<<Send(T56_END_TRANS, "msg", 8, rc)>>, rc)

t56_end_transaction(cp, rc) ==
    IF cp
    THEN Result(<<Alt("bb_end_transaction", rc)>>, rc)
    ELSE Result(<<Send(T56_END_TRANS, "msg", 8, rc)>>, rc)

\* ------------------------------------------- t56_read_block/t56_write_block
\* Lines 204-213: the opcode of a memory kind, -1 for the else branch.
read_block_opcode_swapped(type) ==
    CASE type = MP_CODE -> T56_READ_CODE
      [] type = MP_DATA -> T56_READ_USER_DATA
      [] type = MP_USER -> T56_READ_DATA
      [] OTHER -> -1

read_block_opcode(type) ==
    CASE type = MP_CODE -> T56_READ_CODE
      [] type = MP_DATA -> T56_READ_DATA
      [] type = MP_USER -> T56_READ_USER_DATA
      [] OTHER -> -1

\* Lines 237-246.
write_block_opcode(type) ==
    CASE type = MP_CODE -> T56_WRITE_CODE
      [] type = MP_DATA -> T56_WRITE_DATA
      [] type = MP_USER -> T56_WRITE_USER_DATA
      [] OTHER -> -1

t56_read_block(cp, type, len, rcSend, rcRecv) ==
    LET hdr == Send(read_block_opcode(type), "msg", 8, rcSend)
    IN  IF cp
        THEN Result(<<Alt("bb_read_block", rcSend)>>, rcSend)
        ELSE IF read_block_opcode(type) = -1
        THEN Result(<<>>, EXIT_FAILURE)
        ELSE IF rcSend # 0
        THEN Result(<<hdr>>, EXIT_FAILURE)
        ELSE Result(<<hdr, Recv("buf", len + 16, rcRecv)>>, rcRecv)

write_block_no_abort(cp, type, wbs, rcHdr, rcPay) ==
    LET hdr == Send(write_block_opcode(type), "msg", 8, rcHdr)
        pay == Send(0, "buf", wbs, rcPay)
    IN  IF cp
        THEN Result(<<Alt("bb_write_block", rcHdr)>>, rcHdr)
        ELSE IF write_block_opcode(type) = -1
        THEN Result(<<>>, EXIT_FAILURE)
        ELSE IF rcPay # 0
        THEN Result(<<hdr, pay>>, EXIT_FAILURE)
        ELSE Result(<<hdr, pay>>, EXIT_SUCCESS)

write_block_with_ack(cp, type, wbs, rcHdr, rcPay) ==
    LET hdr == Send(write_block_opcode(type), "msg", 8, rcHdr)
        pay == Send(0, "buf", wbs, rcPay)
    IN  IF cp
        THEN Result(<<Alt("bb_write_block", rcHdr)>>, rcHdr)
        ELSE IF write_block_opcode(type) = -1
        THEN Result(<<>>, EXIT_FAILURE)
        ELSE IF rcHdr # 0
        THEN Result(<<hdr>>, EXIT_FAILURE)
        ELSE IF rcPay # 0
        THEN Result(<<hdr, pay>>, EXIT_FAILURE)
        ELSE Result(<<hdr, pay, Recv("msg", 8, 0)>>, EXIT_SUCCESS)

\* wbs: handle->device->write_buffer_size.
t56_write_block(cp, type, wbs, rcHdr, rcPay) ==
    LET hdr == Send(write_block_opcode(type), "msg", 8, rcHdr)
        pay == Send(0, "buf", wbs, rcPay)
    IN  IF cp
        THEN Result(<<Alt("bb_write_block", rcHdr)>>, rcHdr)
        ELSE IF write_block_opcode(type) = -1
        THEN Result(<<>>, EXIT_FAILURE)
        ELSE IF rcHdr # 0
        THEN Result(<<hdr>>, EXIT_FAILURE)
        ELSE IF rcPay # 0
        THEN Result(<<hdr, pay>>, EXIT_FAILURE)
        ELSE Result(<<hdr, pay>>, EXIT_SUCCESS)

\* ------------------------------------------- t56_read_fuses/t56_write_fuses
\* Lines 269-278.
read_fuses_opcode(type) ==
    CASE type = MP_FUSE_USER -> T56_READ_USER
      [] type = MP_FUSE_CFG -> T56_READ_CFG
      [] type = MP_FUSE_LOCK -> T56_READ_LOCK
      [] OTHER -> -1

t56_read_fuses(cp, type, rcSend, rcRecv) ==
    LET hdr == Send(read_fuses_opcode(type), "msg", 8, rcSend)
    IN  IF cp
        THEN Result(<<Alt("bb_read_fuses", rcSend)>>, rcSend)
        ELSE IF read_fuses_opcode(type) = -1
        THEN Result(<<>>, EXIT_FAILURE)
        ELSE IF rcSend # 0
        THEN Result(<<hdr>>, EXIT_FAILURE)
        ELSE IF rcRecv # 0
        THEN Result(<<hdr, Recv("msg", 64, rcRecv)>>, EXIT_FAILURE)
        ELSE Result(<<hdr, Recv("msg", 64, rcRecv)>>, EXIT_SUCCESS)

\* Lines 303-311: the else branch prints the diagnostic and leaves type as
\* the caller passed it; there is no return.
write_fuses_opcode(type) ==
    CASE type = MP_FUSE_USER -> T56_WRITE_USER
      [] type = MP_FUSE_CFG -> T56_WRITE_CFG
      [] type = MP_FUSE_LOCK -> T56_WRITE_LOCK
      [] OTHER -> type

t56_write_fuses(cp, type, rc) ==
    IF cp
    THEN Result(<<Alt("bb_write_fuses", rc)>>, rc)
    ELSE Result(<<Send(write_fuses_opcode(type), "msg", 64, rc)>>, rc)

\* ---------------------------------------------------- t56_read_calibration
t56_read_calibration(cp, len, rcSend, rcRecv) ==
    LET hdr == Send(T56_READ_CALIBRATION, "msg", 64, rcSend)
    IN  IF cp
        THEN Result(<<Alt("bb_read_calibration", rcSend)>>, rcSend)
        ELSE IF rcSend # 0
        THEN Result(<<hdr>>, EXIT_FAILURE)
        ELSE Result(<<hdr, Recv("buf", len, rcRecv)>>, rcRecv)

\* --------------------------------------------------------- t56_get_chip_id
t56_get_chip_id(cp, rcSend, rcRecv) ==
    LET hdr == Send(T56_READID, "msg", 8, rcSend)
    IN  IF cp
        THEN Result(<<Alt("bb_get_chip_id", rcSend)>>, rcSend)
        ELSE IF rcSend # 0
        THEN Result(<<hdr>>, EXIT_FAILURE)
        ELSE IF rcRecv # 0
        THEN Result(<<hdr, Recv("msg", 32, rcRecv)>>, EXIT_FAILURE)
        ELSE Result(<<hdr, Recv("msg", 32, rcRecv)>>, EXIT_SUCCESS)

\* ------------------------------------------------------ t56_spi_autodetect
\* Lines 373-387: the value of handle->device when the call returns.  The
\* custom-protocol path returns before the assignment; the native path
\* stores the address of the local descriptor and never stores anything else.
spi_autodetect_device(dev, cp) ==
    IF dev # "null" /\ cp THEN dev ELSE "local"

t56_spi_autodetect(dev, cp, uploaded, e) ==
    LET sb == t56_send_bitstream(uploaded, e.algOk, e.rcHdr, e.rcPay)
        req == Send(T56_AUTODETECT, "msg", 10, e.rcSend)
        rsp == Recv("msg", 16, e.rcRecv)
    IN  IF dev # "null" /\ cp
        THEN [Result(<<Alt("bb_spi_autodetect", e.rcSend)>>, e.rcSend)
                 EXCEPT !.uploaded = uploaded]
        ELSE IF sb.ret # 0
        THEN [sb EXCEPT !.ret = EXIT_FAILURE, !.frees = sb.frees + 1]
        ELSE IF e.rcSend # 0
        THEN [sb EXCEPT !.calls = sb.calls \o <<req>>, !.ret = EXIT_FAILURE]
        ELSE IF e.rcRecv # 0
        THEN [sb EXCEPT !.calls = sb.calls \o <<req, rsp>>, !.ret = EXIT_FAILURE]
        ELSE [sb EXCEPT !.calls = sb.calls \o <<req, rsp>>, !.ret = EXIT_SUCCESS]

\* ------------------------------------------ t56_protect_off/t56_protect_on
t56_protect_off(cp, rc) ==
    IF cp
    THEN Result(<<Alt("bb_protect_off", rc)>>, rc)
    ELSE Result(<<Send(T56_PROTECT_OFF, "msg", 8, rc)>>, rc)

t56_protect_on(cp, rc) ==
    IF cp
    THEN Result(<<Alt("bb_protect_on", rc)>>, rc)
    ELSE Result(<<Send(T56_PROTECT_ON, "msg", 8, rc)>>, rc)

\* --------------------------------------------------------------- t56_erase
t56_erase(cp, rcSend, rcRecv) ==
    LET req == Send(T56_ERASE, "msg", 15, rcSend)
    IN  IF cp
        THEN Result(<<Alt("bb_erase", rcSend)>>, rcSend)
        ELSE IF rcSend # 0
        THEN Result(<<req>>, EXIT_FAILURE)
        ELSE Result(<<req, Recv("msg", 64, rcRecv)>>, rcRecv)

\* ----------------------------------- t56_write_jedec_row/t56_read_jedec_row
t56_write_jedec_row(cp, rc) ==
    IF cp
    THEN Result(<<Alt("bb_write_jedec_row", rc)>>, rc)
    ELSE Result(<<Send(T56_WRITE_JEDEC, "msg", 64, rc)>>, rc)

t56_read_jedec_row(cp, rcSend, rcRecv) ==
    LET req == Send(T56_READ_JEDEC, "msg", 8, rcSend)
    IN  IF cp
        THEN Result(<<Alt("bb_read_jedec_row", rcSend)>>, rcSend)
        ELSE IF rcSend # 0
        THEN Result(<<req>>, EXIT_FAILURE)
        ELSE IF rcRecv # 0
        THEN Result(<<req, Recv("msg", 32, rcRecv)>>, EXIT_FAILURE)
        ELSE Result(<<req, Recv("msg", 32, rcRecv)>>, EXIT_SUCCESS)

\* ------------------------------------------------------------ environment
\* The answers of the external collaborators during one call: whether
\* get_algorithm succeeds, the return codes of the transport calls, byte 12
\* of the status response.  A handler asks for them in order and returns at
\* the first failure, so the answers behind a failure are never asked for
\* and stay at success / zero.
AllEnvs ==
    [algOk : BOOLEAN, rcHdr : RCs, rcPay : RCs, rcBegin : RCs, rcSend : RCs,
     rcRecv : RCs, byte12 : OvcBytes]

Failures(e) ==
    (IF e.algOk THEN 0 ELSE 1) + e.rcHdr + e.rcPay + e.rcBegin + e.rcSend + e.rcRecv

Envs ==
    {e \in AllEnvs : Failures(e) = 0 \/ (Failures(e) = 1 /\ e.byte12 = 0)}

\* The values handle->device->flags.custom_protocol can read as.
CustomProtocol == DeviceField(device, target, "custom_protocol", BOOLEAN)

\* The values handle->device->write_buffer_size can read as.
WriteBufferSize == DeviceField(device, target, "write_buffer_size", {64, 128})

\* ------------------------------------------------------------- observers
CountCalls(cs, fn) == Cardinality({i \in DOMAIN cs : cs[i].call = fn})

\* Bitstream payload sends that succeeded: completed uploads.
CompletedUploads(cs) ==
    Cardinality({i \in DOMAIN cs :
        cs[i].call = "msg_send" /\ cs[i].buf = "bitstream" /\ cs[i].rc = 0})

OffScript == [step |-> -1, writes |-> 0, reads |-> 0]

\* Progress through the sequence begin_transaction, write_block(code, len 64),
\* end_transaction, all native and successful, from the start of the session.
NextE2E(name, type, len, cp, r) ==
    LET on == [step |-> e2e.step + 1,
               writes |-> e2e.writes + CountCalls(r.calls, "msg_send"),
               reads |-> e2e.reads + CountCalls(r.calls, "msg_recv")]
    IN  IF cp \/ r.ret # 0 THEN OffScript
        ELSE IF e2e.step = 0 /\ name = "begin_transaction" THEN on
        ELSE IF e2e.step = 1 /\ name = "write_block" /\ type = MP_CODE /\ len = 64
        THEN on
        ELSE IF e2e.step = 2 /\ name = "end_transaction" THEN on
        ELSE OffScript

NextBegins(name, ret) ==
    IF begins = -1 \/ name # "begin_transaction" THEN -1
    ELSE IF ret = 0 /\ begins < 2 THEN begins + 1
    ELSE begins

NoWire == [op |-> "none"]

\* The bitstreams get_algorithm can resolve: the target device's, and the two
\* SPI autodetection ones.
Algorithms == {"target", "SPI25F11", "SPI25F21"}

\* The algorithm get_algorithm resolves in begin_transaction, from the
\* descriptor handle->device points to: the target's, or anything when the
\* pointer is the one spi_autodetect left behind.
begin_algorithm(dev) ==
    IF dev = "target" THEN {"target"} ELSE Algorithms

\* The algorithm of spi_autodetect's local descriptor: SPI_DEVICE_8P for
\* type 0, SPI_DEVICE_16P otherwise.
autodetect_algorithm(type) ==
    IF type = 0 THEN "SPI25F11" ELSE "SPI25F21"

\* The bitstream on the device after the calls cs of an upload of alg: alg
\* once the payload went through, none in working order when the payload
\* send failed, and the previous one when no payload was sent.
fpga_after(loaded, cs, alg) ==
    IF CompletedUploads(cs) = 1 THEN alg
    ELSE IF \E i \in DOMAIN cs : cs[i].buf = "bitstream" THEN "none"
    ELSE loaded

NoOp ==
    [op |-> "none", len |-> 0, ret |-> 0, frees |-> 0, resolved |-> FALSE,
     ovc |-> -1, status |-> FALSE, hasStatus |-> FALSE, cp |-> FALSE,
     type |-> 0, dev0 |-> "null", up0 |-> FALSE]

\* Records operation `name` with result r and updates the observers.
Finish(name, type, len, cp, hasStatus, r) ==
    /\ last' = [op |-> name, len |-> len, ret |-> r.ret, frees |-> r.frees,
                resolved |-> r.resolved, ovc |-> r.ovc, status |-> r.status,
                hasStatus |-> hasStatus, cp |-> cp, type |-> type,
                dev0 |-> device, up0 |-> bitstream_uploaded]
    /\ calls' = r.calls
    /\ uploads' = uploads + CompletedUploads(r.calls)
    /\ begins' = NextBegins(name, r.ret)
    /\ e2e' = NextE2E(name, type, len, cp, r)
    /\ UNCHANGED <<target, up_at_open, wire>>

\* ------------------------------------------------------------------ state
Init ==
    /\ bitstream_uploaded = FALSE
    /\ device \in {"null", "target"}
    /\ target \in Targets
    /\ last = NoOp
    /\ calls = <<>>
    /\ up_at_open = FALSE
    /\ uploads = 0
    /\ begins = 0
    /\ e2e = [step |-> 0, writes |-> 0, reads |-> 0]
    /\ wire = NoWire
    /\ fpga = "none"

\* The caller closes the handle and establishes a new one.  Nothing in
\* t56.c runs: the static flag of t56_send_bitstream keeps its value.
NewHandle ==
    /\ last.op # "none"
    /\ device' \in {"null", "target"}
    /\ target' \in Targets
    /\ last' = NoOp
    /\ calls' = <<>>
    /\ up_at_open' = bitstream_uploaded
    /\ uploads' = 0
    /\ begins' = 0
    /\ e2e' = [step |-> 0, writes |-> 0, reads |-> 0]
    /\ UNCHANGED <<bitstream_uploaded, wire, fpga>>

\* ---------------------------------------------------------------- actions
\* Every operation but spi_autodetect dereferences handle->device.
BeginTransaction ==
    /\ device # "null"
    /\ \E cp \in CustomProtocol, e \in Envs :
        LET r == t56_begin_transaction(bitstream_uploaded, cp, e)
        IN  /\ Finish("begin_transaction", 0, 0, cp, FALSE, r)
            /\ bitstream_uploaded' = r.uploaded
            /\ \E alg \in begin_algorithm(device) :
                    fpga' = fpga_after(fpga, r.calls, alg)
            /\ UNCHANGED device

EndTransaction ==
    /\ device # "null"
    /\ \E cp \in CustomProtocol, rc \in RCs :
        /\ Finish("end_transaction", 0, 0, cp, FALSE, t56_end_transaction(cp, rc))
        /\ UNCHANGED <<bitstream_uploaded, device, fpga>>

ReadBlock ==
    /\ device # "null"
    /\ \E cp \in CustomProtocol, type \in Kinds, len \in BlockLens, rc1, rc2 \in RCs :
        /\ Finish("read_block", type, len, cp, FALSE,
                  t56_read_block(cp, type, len, rc1, rc2))
        /\ UNCHANGED <<bitstream_uploaded, device, fpga>>

WriteBlock ==
    /\ device # "null"
    /\ \E cp \in CustomProtocol, type \in Kinds, len \in BlockLens,
          wbs \in WriteBufferSize, rc1, rc2 \in RCs :
        /\ Finish("write_block", type, len, cp, FALSE,
                  t56_write_block(cp, type, wbs, rc1, rc2))
        /\ UNCHANGED <<bitstream_uploaded, device, fpga>>

ReadFuses ==
    /\ device # "null"
    /\ \E cp \in CustomProtocol, type \in Kinds, rc1, rc2 \in RCs :
        /\ Finish("read_fuses", type, 0, cp, FALSE, t56_read_fuses(cp, type, rc1, rc2))
        /\ UNCHANGED <<bitstream_uploaded, device, fpga>>

WriteFuses ==
    /\ device # "null"
    /\ \E cp \in CustomProtocol, type \in Kinds, rc \in RCs :
        /\ Finish("write_fuses", type, 0, cp, FALSE, t56_write_fuses(cp, type, rc))
        /\ UNCHANGED <<bitstream_uploaded, device, fpga>>

ReadCalibration ==
    /\ device # "null"
    /\ \E cp \in CustomProtocol, len \in BlockLens, rc1, rc2 \in RCs :
        /\ Finish("read_calibration", 0, len, cp, FALSE,
                  t56_read_calibration(cp, len, rc1, rc2))
        /\ UNCHANGED <<bitstream_uploaded, device, fpga>>

GetChipId ==
    /\ device # "null"
    /\ \E cp \in CustomProtocol, rc1, rc2 \in RCs :
        /\ Finish("get_chip_id", 0, 0, cp, FALSE, t56_get_chip_id(cp, rc1, rc2))
        /\ UNCHANGED <<bitstream_uploaded, device, fpga>>

\* type: 0 selects the 8-pin, 1 the 16-pin autodetection.
SpiAutodetect ==
    \E cp \in (IF device = "null" THEN {FALSE} ELSE CustomProtocol),
       type \in {0, 1}, e \in {x \in Envs : x.rcBegin = 0} :
        LET r == t56_spi_autodetect(device, cp, bitstream_uploaded, e)
        IN  /\ Finish("spi_autodetect", type, 0, cp, FALSE, r)
            /\ bitstream_uploaded' = r.uploaded
            /\ fpga' = fpga_after(fpga, r.calls, autodetect_algorithm(type))
            /\ device' = spi_autodetect_device(device, cp)

ProtectOff ==
    /\ device # "null"
    /\ \E cp \in CustomProtocol, rc \in RCs :
        /\ Finish("protect_off", 0, 0, cp, FALSE, t56_protect_off(cp, rc))
        /\ UNCHANGED <<bitstream_uploaded, device, fpga>>

ProtectOn ==
    /\ device # "null"
    /\ \E cp \in CustomProtocol, rc \in RCs :
        /\ Finish("protect_on", 0, 0, cp, FALSE, t56_protect_on(cp, rc))
        /\ UNCHANGED <<bitstream_uploaded, device, fpga>>

Erase ==
    /\ device # "null"
    /\ \E cp \in CustomProtocol, rc1, rc2 \in RCs :
        /\ Finish("erase", 0, 0, cp, FALSE, t56_erase(cp, rc1, rc2))
        /\ UNCHANGED <<bitstream_uploaded, device, fpga>>

GetOvcStatus ==
    /\ device # "null"
    /\ \E cp \in CustomProtocol, hasStatus \in BOOLEAN, rc1, rc2 \in RCs,
          b \in OvcBytes :
        /\ Finish("get_ovc_status", 0, 0, cp, hasStatus,
                  t56_get_ovc_status(hasStatus, cp, rc1, rc2, b))
        /\ UNCHANGED <<bitstream_uploaded, device, fpga>>

WriteJedecRow ==
    /\ device # "null"
    /\ \E cp \in CustomProtocol, rc \in RCs :
        /\ Finish("write_jedec_row", 0, 0, cp, FALSE, t56_write_jedec_row(cp, rc))
        /\ UNCHANGED <<bitstream_uploaded, device, fpga>>

ReadJedecRow ==
    /\ device # "null"
    /\ \E cp \in CustomProtocol, rc1, rc2 \in RCs :
        /\ Finish("read_jedec_row", 0, 0, cp, FALSE, t56_read_jedec_row(cp, rc1, rc2))
        /\ UNCHANGED <<bitstream_uploaded, device, fpga>>

Next ==
    \/ NewHandle
    \/ BeginTransaction
    \/ EndTransaction
    \/ ReadBlock
    \/ WriteBlock
    \/ ReadFuses
    \/ WriteFuses
    \/ ReadCalibration
    \/ GetChipId
    \/ SpiAutodetect
    \/ ProtectOff
    \/ ProtectOn
    \/ Erase
    \/ GetOvcStatus
    \/ WriteJedecRow
    \/ ReadJedecRow

Spec == Init /\ [][Next]_vars

\* ----------------------------------------------------------------- claims
IsBitstreamWrite(c) ==
    /\ c.call = "msg_send"
    /\ \/ c.buf = "bitstream"
       \/ c.buf = "msg" /\ c.op = 38

IsStatusRequest(c) ==
    c.call = "msg_send" /\ c.buf = "msg" /\ c.op = 57 /\ c.len = 8

IsBeginStep(c) ==
    \/ c.call = "msg_send" /\ c.buf = "msg" /\ c.op = 3 /\ c.len = 64
    \/ c.call = "bb_begin_transaction"

UploadedBefore == uploads - CompletedUploads(calls)

\* C1: on one handle at most one bitstream upload completes; once one has
\* completed, no later begin_transaction sends a WRITE_BITSTREAM (0x26)
\* header or a bitstream payload; two successful begin_transaction calls on a
\* handle opened with the flag clear make exactly one upload.
C1_UploadOnce ==
    /\ uploads <= 1
    /\ (last.op = "begin_transaction" /\ UploadedBefore > 0)
          => \A i \in DOMAIN calls : ~IsBitstreamWrite(calls[i])
    /\ (begins = 2 /\ ~up_at_open) => uploads = 1

\* C1 witness: the second successful begin_transaction of a fresh handle ran
\* with the upload already made and sent no bitstream message.
C1_Witness ==
    /\ begins = 2
    /\ ~up_at_open
    /\ uploads = 1
    /\ UploadedBefore = 1
    /\ last.ret = 0
    /\ \A i \in DOMAIN calls : ~IsBitstreamWrite(calls[i])

\* C2: in every upload attempt that resolved the algorithm, from
\* begin_transaction or spi_autodetect, the bitstream buffer is freed exactly
\* once, whether the header send fails, the payload send fails or both succeed.
C2_ReleasedOnce ==
    (last.op \in {"begin_transaction", "spi_autodetect"} /\ last.resolved)
        => last.frees = 1

\* C3: the "bitstream uploaded" flag is false whenever a new handle is
\* established, so the first begin_transaction of a new handle uploads.
C3_FlagFalseAtOpen ==
    /\ ~up_at_open
    /\ last.op = "none" => ~bitstream_uploaded
    /\ e2e.step = 1 => uploads = 1

\* C4: native read_block / write_block with a kind other than code, data,
\* user fail with no transport call; for code/data/user the header opcode is
\* 0x0D/0x10/0x0B on read and 0x0C/0x11/0x0A on write.
C4_BlockKinds ==
    (last.op \in {"read_block", "write_block"} /\ ~last.cp) =>
        IF last.type \notin {MP_CODE, MP_DATA, MP_USER}
        THEN last.ret # 0 /\ calls = <<>>
        ELSE /\ Len(calls) >= 1
             /\ calls[1].call = "msg_send"
             /\ calls[1].buf = "msg"
             /\ calls[1].len = 8
             /\ last.type = MP_CODE =>
                   calls[1].op = (IF last.op = "read_block" THEN 13 ELSE 12)
             /\ last.type = MP_DATA =>
                   calls[1].op = (IF last.op = "read_block" THEN 16 ELSE 17)
             /\ last.type = MP_USER =>
                   calls[1].op = (IF last.op = "read_block" THEN 11 ELSE 10)

\* C4 witness: a native write_block of an unknown kind returned failure
\* having made no transport call.
C4_Witness ==
    /\ last.op = "write_block"
    /\ ~last.cp
    /\ last.type \notin {MP_CODE, MP_DATA, MP_USER}
    /\ calls = <<>>
    /\ last.ret = 1

\* C5: native read_fuses / write_fuses with a kind other than user, config,
\* lock fail without any transport call.
C5_FuseKinds ==
    (last.op \in {"read_fuses", "write_fuses"} /\ ~last.cp
         /\ last.type \notin {MP_FUSE_USER, MP_FUSE_CFG, MP_FUSE_LOCK})
        => last.ret # 0 /\ calls = <<>>

\* C6: once a transport call fails the operation makes no further call and
\* returns failure; a failed upload in begin_transaction is followed by
\* neither the begin step nor the status request.
C6_AbortOnTransportFailure ==
    /\ \A i \in DOMAIN calls :
          (IsTransport(calls[i]) /\ calls[i].rc # 0)
              => i = Len(calls) /\ last.ret # 0
    /\ (last.op = "begin_transaction" /\ ~last.up0 /\ CompletedUploads(calls) = 0)
          => /\ last.ret # 0
             /\ \A i \in DOMAIN calls :
                   ~IsBeginStep(calls[i]) /\ ~IsStatusRequest(calls[i])

\* C6 witness: a native write_block whose header send failed made that one
\* call and returned failure.
C6_Witness ==
    /\ last.op = "write_block"
    /\ ~last.cp
    /\ Len(calls) = 1
    /\ calls[1].call = "msg_send"
    /\ calls[1].rc # 0
    /\ last.ret # 0

\* C7: begin_transaction sends the status request right after the begin step
\* (native message or alternate begin); it returns success only when the poll
\* completed with overcurrent byte zero, and a non-zero byte makes it fail.
C7_PollAfterBegin ==
    last.op = "begin_transaction" =>
        /\ \A i \in DOMAIN calls :
              (IsBeginStep(calls[i]) /\ calls[i].rc = 0)
                  => i < Len(calls) /\ IsStatusRequest(calls[i + 1])
        /\ last.ret = 0 =>
              /\ Len(calls) >= 3
              /\ IsBeginStep(calls[Len(calls) - 2])
              /\ IsStatusRequest(calls[Len(calls) - 1])
              /\ calls[Len(calls) - 1].rc = 0
              /\ calls[Len(calls)].call = "msg_recv"
              /\ calls[Len(calls)].len = 32
              /\ calls[Len(calls)].rc = 0
              /\ last.ovc = 0
        /\ last.ovc > 0 => last.ret # 0

\* C7 witness: on the custom-protocol path the poll that followed the
\* alternate begin read a non-zero overcurrent byte and the call failed.
C7_Witness ==
    /\ last.op = "begin_transaction"
    /\ last.cp
    /\ Len(calls) >= 3
    /\ calls[Len(calls) - 2].call = "bb_begin_transaction"
    /\ calls[Len(calls)].call = "msg_recv"
    /\ calls[Len(calls)].rc = 0
    /\ last.ovc = 128
    /\ last.ret # 0

\* C8 as stated: the native sequence begin_transaction, write_block(code, 0,
\* 64), end_transaction makes exactly three transport writes and no read, and
\* write_block never issues a receive.
C8_ThreeWritesNoRead ==
    /\ e2e.step = 3 => (e2e.writes = 3 /\ e2e.reads = 0)
    /\ (last.op = "write_block" /\ ~last.cp)
          => \A i \in DOMAIN calls : calls[i].call # "msg_recv"

\* C8 amended: the sequence makes five transport writes (begin message,
\* status request, write-block header, write-block payload, end message),
\* plus the two bitstream-upload writes when the flag was clear, and exactly
\* one read (the status response); write_block never issues a receive.
C8_E2ETransport ==
    /\ e2e.step = 3 =>
          /\ e2e.writes = 5 + 2 * uploads
          /\ e2e.reads = 1
          /\ uploads = (IF up_at_open THEN 0 ELSE 1)
    /\ (last.op = "write_block" /\ ~last.cp)
          => \A i \in DOMAIN calls : calls[i].call # "msg_recv"

\* C8 witness: the sequence completed on a fresh handle with seven writes
\* and one read.
C8_Witness ==
    /\ e2e.step = 3
    /\ ~up_at_open
    /\ e2e.writes = 7
    /\ e2e.reads = 1
    /\ last.op = "end_transaction"

HasNative == \E i \in DOMAIN calls : IsTransport(calls[i])

HasAlt == \E i \in DOMAIN calls : IsAlt(calls[i])

Forwarded ==
    /\ Len(calls) = 1
    /\ IsAlt(calls[1])
    /\ last.ret = calls[1].rc

\* C9 as stated: every operation with custom_protocol set is carried out by
\* forwarding to the alternate operation and returning its result, with it
\* clear by the native encoding, and no operation does both.
C9_ExclusivePaths ==
    last.op # "none" =>
        /\ last.cp => Forwarded
        /\ ~last.cp => ~HasAlt
        /\ ~(HasNative /\ HasAlt)

\* C9 amended: every operation other than begin_transaction and
\* get_ovc_status forwards when custom_protocol is set and is native when it
\* is clear.  begin_transaction with the flag set makes the native bitstream
\* upload, then the alternate begin, then the native status poll;
\* get_ovc_status is native whatever the flag.
C9_DispatchExceptBegin ==
    /\ last.op \notin {"none", "begin_transaction", "get_ovc_status"} =>
          /\ last.cp => Forwarded
          /\ ~last.cp => ~HasAlt
    /\ last.op = "get_ovc_status" => ~HasAlt
    /\ last.op = "begin_transaction" =>
          /\ ~last.cp => ~HasAlt
          /\ \A i \in DOMAIN calls :
                IsAlt(calls[i]) => calls[i].call = "bb_begin_transaction"
          /\ (last.cp /\ last.ret = 0) => (HasAlt /\ HasNative)

\* C9 witness: end_transaction on a custom-protocol device forwarded to
\* bb_end_transaction and returned its failure.
C9_Witness ==
    /\ last.op = "end_transaction"
    /\ last.cp
    /\ calls = <<Alt("bb_end_transaction", 1)>>
    /\ last.ret = 1

\* C10: when spi_autodetect returns, on every path, handle->device holds the
\* value it had before the call and not the address of the local descriptor.
C10_DeviceRestored ==
    last.op = "spi_autodetect" => (device = last.dev0 /\ device # "local")


\* ================================================================ messages
\* The native path of each handler at byte level.  SpecWire runs one native
\* operation at a time on a handle whose device is a native target; every
\* transport call succeeds unless an action says otherwise.  The fields of
\* the descriptor that Spec does not track are inputs of the actions.

\* ---------------------------------------------------------------- bounds
\* The largest fuse count a fuse declaration holds.
MaxFuses == 6

MP_LITTLE_ENDIAN == "MP_LITTLE_ENDIAN"

MP_BIG_ENDIAN == "MP_BIG_ENDIAN"

\* A 32-bit unsigned value as its two 16-bit halves.
U32(hi, lo) == [hi |-> hi, lo |-> lo]
Wide(n) == U32(n \div 65536, n % 65536)

\* Byte k (0 = least significant) of a 32-bit value.
ByteOf(value, k) ==
    CASE k = 0 -> value.lo % 256
      [] k = 1 -> value.lo \div 256
      [] k = 2 -> value.hi % 256
      [] k = 3 -> value.hi \div 256
      [] OTHER -> 0

\* format_int(out, value, n, endianness): the n low bytes of value.
format_int(value, n, endianness) ==
    [i \in 1..n |-> ByteOf(value, IF endianness = MP_LITTLE_ENDIAN THEN i - 1 ELSE n - i)]

\* Byte of significance k among the n bytes bs.
Significant(bs, n, endianness, k) ==
    IF k >= n THEN 0
    ELSE IF endianness = MP_LITTLE_ENDIAN THEN bs[k + 1] ELSE bs[n - k]

\* load_int(in, n, endianness): the value of the n bytes bs.
load_int(bs, n, endianness) ==
    U32(Significant(bs, n, endianness, 2) + 256 * Significant(bs, n, endianness, 3),
        Significant(bs, n, endianness, 0) + 256 * Significant(bs, n, endianness, 1))

Buffer(n, fill) == [b |-> [i \in 1..n |-> fill], set |-> {}]

\* Writes bytes bs at offset off, as far as the buffer reaches.
Put(m, off, bs) ==
    [b |-> [i \in 1..Len(m.b) |->
              IF i - 1 >= off /\ i - off <= Len(bs) THEN bs[i - off] ELSE m.b[i]],
     set |-> m.set \cup {o \in off..(off + Len(bs) - 1) : o < Len(m.b)}]

\* msg[off].
Byte(m, off) == m.b[off + 1]

\* The n bytes of a byte sequence from offset off on.
Slice(bs, off, n) == [i \in 1..n |-> bs[off + i]]

NativeTarget == device = "target" /\ ~target.custom_protocol

WireStep(w) ==
    /\ NativeTarget
    /\ wire' = w
    /\ UNCHANGED <<bitstream_uploaded, device, target, last, calls, up_at_open,
                   uploads, begins, e2e, fpga>>

\* --------------------------------------------------------------- t56_erase
\* Lines 442-446: msg[2].  hasFuses: handle->device->config is not NULL.
erase_fuse_byte(hasFuses, num_fuses) ==
    IF ~hasFuses \/ num_fuses # 0
    THEN 1
    ELSE IF num_fuses > 4 THEN 1 ELSE num_fuses

erase_msg(hasFuses, num_fuses) ==
    Put(Put(Buffer(64, 0), 0, <<T56_ERASE>>), 2, <<erase_fuse_byte(hasFuses, num_fuses)>>)

EraseWire ==
    \E hasFuses \in BOOLEAN, num_fuses \in 0..MaxFuses :
        /\ hasFuses \/ num_fuses = 0
        /\ WireStep([op |-> "erase", hasFuses |-> hasFuses, num_fuses |-> num_fuses,
                     msg |-> erase_msg(hasFuses, num_fuses), sendLen |-> 15,
                     recvLen |-> 64])

\* C11: native erase sends a 15-byte request whose byte 2 is 1 when the
\* device has no fuse declaration or its declared count is zero and
\* min(count, 4) otherwise, then reads a 64-byte acknowledgment.
C11_EraseFuseByte ==
    wire.op = "erase" =>
        /\ wire.sendLen = 15
        /\ wire.recvLen = 64
        /\ Byte(wire.msg, 0) = 14
        /\ Byte(wire.msg, 2) =
              IF ~wire.hasFuses \/ wire.num_fuses = 0 THEN 1
              ELSE IF wire.num_fuses > 4 THEN 4
              ELSE wire.num_fuses

\* --------------------------------------- t56_begin_transaction, the message
\* Values of device->voltages.raw_voltages (32 bits).
RawVoltages ==
    {U32(0, 53), U32(0, 245), U32(0, 240), U32(18, 42179), U32(32771, 53),
     U32(32778, 247)}

\* The other descriptor fields the begin message carries.
BeginDevices ==
    {[protocol_id |-> 3, variant |-> 4352, chip_info |-> 0, pin_map |-> 33,
      data_memory_size |-> 0, page_size |-> 256, pulse_delay |-> 100,
      data_memory2_size |-> 0, code_memory_size |-> U32(16, 0),
      packed_package |-> U32(2048, 8), read_buffer_size |-> 512,
      raw_flags |-> U32(0, 16)],
     [protocol_id |-> 49, variant |-> 258, chip_info |-> 7, pin_map |-> 161,
      data_memory_size |-> 1024, page_size |-> 64, pulse_delay |-> 4660,
      data_memory2_size |-> 128, code_memory_size |-> U32(1, 0),
      packed_package |-> U32(65280, 28), read_buffer_size |-> 1024,
      raw_flags |-> U32(32768, 257)]}

\* What the bytes of the local msg[64] hold before the handler writes them:
\* t56_begin_transaction has no memset, so whatever the stack held.
StackBytes == {0, 170}

\* Lines 146-155: msg[20], msg[21], msg[22].
begin_voltage_bytes(m, raw) ==
    LET low == raw.lo % 256
        m20 == Put(m, 20, <<raw.hi % 256>>)
        m22 == IF low \div 16 = 15
               THEN Put(m20, 22, <<low>>)
               ELSE Put(Put(m20, 21, <<low % 16>>), 22, <<low - (low % 16)>>)
    IN  IF raw.hi \div 32768 = 1
        THEN Put(m22, 22, <<raw.hi % 16>>)
        ELSE m22

\* Lines 127-163, in the order of the source.
begin_msg(d, icsp, raw, stack) ==
    LET m0 == Put(Buffer(64, stack), 0, <<T56_BEGIN_TRANS, d.protocol_id, d.variant % 256, icsp>>)
        m4 == Put(m0, 4, format_int(raw, 2, MP_LITTLE_ENDIAN))
        m6 == Put(m4, 6, <<d.chip_info % 256, d.pin_map % 256>>)
        m8 == Put(m6, 8, format_int(Wide(d.data_memory_size), 2, MP_LITTLE_ENDIAN))
        m10 == Put(m8, 10, format_int(Wide(d.page_size), 2, MP_LITTLE_ENDIAN))
        m12 == Put(m10, 12, format_int(Wide(d.pulse_delay), 2, MP_LITTLE_ENDIAN))
        m14 == Put(m12, 14, format_int(Wide(d.data_memory2_size), 2, MP_LITTLE_ENDIAN))
        m16 == Put(m14, 16, format_int(d.code_memory_size, 4, MP_LITTLE_ENDIAN))
        m20 == begin_voltage_bytes(m16, raw)
        m40 == Put(m20, 40, format_int(d.packed_package, 4, MP_LITTLE_ENDIAN))
        m44 == Put(m40, 44, format_int(Wide(d.read_buffer_size), 2, MP_LITTLE_ENDIAN))
    IN  Put(m44, 56, format_int(d.raw_flags, 4, MP_LITTLE_ENDIAN))

BeginWire ==
    \E d \in BeginDevices, icsp \in {0, 1}, raw \in RawVoltages, stack \in StackBytes :
        WireStep([op |-> "begin_transaction", msg |-> begin_msg(d, icsp, raw, stack),
                  sendLen |-> 64, recvLen |-> 0, raw |-> raw, stack |-> stack])

\* --------------------------------------------------------- t56_get_chip_id
\* The largest chip_id_bytes_count of a descriptor.
MaxIdBytes == 5
\* The largest chip ID type the device answers with.
MaxIdType == 5

MP_ID_TYPE3 == 3
MP_ID_TYPE4 == 4

\* Bytes 2..5 of the responses tried.
IdPatterns == {<<18, 52, 86, 120>>, <<239, 0, 1, 255>>}

\* The 32-byte response with type byte t and ID bytes p.
ChipIdResponse(t, p) == <<t, 0>> \o p \o [i \in 1..26 |-> 0]

\* Lines 356-358.
chip_id_format_type3_only(type) ==
    IF type = MP_ID_TYPE3 THEN MP_LITTLE_ENDIAN ELSE MP_BIG_ENDIAN

chip_id_format(type) ==
    IF type = MP_ID_TYPE3 \/ type = MP_ID_TYPE4
    THEN MP_LITTLE_ENDIAN
    ELSE MP_BIG_ENDIAN

\* Lines 362-364.
chip_id_length(count) == IF count > 4 THEN 4 ELSE count

\* Lines 354-366: *device_id from the response in msg.
chip_id_decode(resp, count) ==
    IF chip_id_length(count) # 0
    THEN load_int(Slice(resp, 2, chip_id_length(count)), chip_id_length(count), chip_id_format(resp[1]))
    ELSE Wide(0)

\* Lines 346-348.
chip_id_msg == Put(Buffer(32, 208), 0, <<T56_READID>>)

ChipIdWire ==
    \E t \in 1..MaxIdType, p \in IdPatterns, count \in 0..MaxIdBytes :
        WireStep([op |-> "get_chip_id", msg |-> chip_id_msg, sendLen |-> 8,
                  recvLen |-> 32, count |-> count, resp |-> ChipIdResponse(t, p),
                  type_out |-> ChipIdResponse(t, p)[1],
                  device_id |-> chip_id_decode(ChipIdResponse(t, p), count)])

\* ---------------------------------------------------------- t56_read_block
\* Lengths and addresses read_block is called with.
ReadLens == {0, 1, 64, 258, 65535}

ReadAddrs == {U32(0, 0), U32(4660, 22136), U32(65535, 65535)}

\* Lines 215-219 with the bytes of the two integers swapped.
read_block_msg_big_endian(type, addr, len) ==
    LET m0 == Put(Buffer(64, 0), 0, <<read_block_opcode(type)>>)
        m2 == Put(m0, 2, format_int(Wide(len), 2, MP_BIG_ENDIAN))
    IN  Put(m2, 4, format_int(addr, 4, MP_BIG_ENDIAN))

\* Lines 215-219.
read_block_msg(type, addr, len) ==
    LET m0 == Put(Buffer(64, 0), 0, <<read_block_opcode(type)>>)
        m2 == Put(m0, 2, format_int(Wide(len), 2, MP_LITTLE_ENDIAN))
    IN  Put(m2, 4, format_int(addr, 4, MP_LITTLE_ENDIAN))

ReadBlockWire ==
    \E type \in {MP_CODE, MP_DATA, MP_USER}, addr \in ReadAddrs, len \in ReadLens :
        \E rcSend \in RCs, rcRecv \in RCs :
            WireStep([calls |-> t56_read_block(FALSE, type, len, rcSend, rcRecv).calls,
                      op |-> "read_block", len |-> len, type |-> type,
                      msg |-> read_block_msg(type, addr, len),
                      sendLen |-> 8, recvLen |-> len + 16, addr |-> addr])

\* ------------------------------------------- t56_read_fuses, t56_write_fuses
\* device->code_memory_size values.
CodeSizes == {U32(0, 0), U32(0, 56), U32(0, 55), U32(16, 0), U32(65535, 65535)}

\* The length argument of the fuse operations.
FuseLengths == {0, 8, 56, 57}

\* The items_count argument and device->protocol_id.
ItemCounts == {1, 4}

ProtocolIds == {49}

\* n bytes of caller data, none of them zero.
Payload(n) == [i \in 1..n |-> 100 + i]

\* value - k in 32-bit unsigned arithmetic, for k < 65536.
Sub32(value, k) ==
    IF value.lo >= k
    THEN U32(value.hi, value.lo - k)
    ELSE U32((value.hi + 65535) % 65536, value.lo + 65536 - k)

\* Lines 280-285.
read_fuses_msg(type, protocol_id, items_count, cms) ==
    LET m0 == Put(Buffer(64, 0), 0, <<read_fuses_opcode(type), protocol_id, items_count>>)
    IN  Put(m0, 4, format_int(cms, 4, MP_LITTLE_ENDIAN))

\* Lines 313-321 without the 0x38 adjustment.
write_fuses_msg_unadjusted(type, hasBuffer, protocol_id, items_count, cms, length) ==
    LET m0 == Put(Buffer(64, 0), 0, <<write_fuses_opcode(type)>>)
        m1 == Put(m0, 1, <<protocol_id, items_count>>)
        m4 == Put(m1, 4, format_int(cms, 4, MP_LITTLE_ENDIAN))
    IN  IF hasBuffer THEN Put(m4, 8, Payload(length)) ELSE m0

\* Lines 313-321; a copy that runs past msg[63] does not land in the message.
write_fuses_msg(type, hasBuffer, protocol_id, items_count, cms, length) ==
    LET m0 == Put(Buffer(64, 0), 0, <<write_fuses_opcode(type)>>)
        m1 == Put(m0, 1, <<protocol_id, items_count>>)
        m4 == Put(m1, 4, format_int(Sub32(cms, 56), 4, MP_LITTLE_ENDIAN))
    IN  IF hasBuffer THEN Put(m4, 8, Payload(length)) ELSE m0

\* copyEnd is one past the last offset of msg the memcpy touches (0: no copy).
ReadFusesWire ==
    \E type \in {MP_FUSE_USER, MP_FUSE_CFG, MP_FUSE_LOCK}, items_count \in ItemCounts :
        \E protocol_id \in ProtocolIds, cms \in CodeSizes, length \in FuseLengths :
            WireStep([op |-> "read_fuses", type |-> type,
                      msg |-> read_fuses_msg(type, protocol_id, items_count, cms),
                      sendLen |-> 8, recvLen |-> 64, cms |-> cms,
                      length |-> length, copyEnd |-> 8 + length])

WriteFusesWire ==
    \E type \in Kinds, items_count \in ItemCounts, hasBuffer \in BOOLEAN :
        \E protocol_id \in ProtocolIds, cms \in CodeSizes, length \in FuseLengths :
            WireStep([op |-> "write_fuses", type |-> type,
                      msg |-> write_fuses_msg(type, hasBuffer, protocol_id, items_count, cms, length),
                      sendLen |-> 64, recvLen |-> 0, cms |-> cms,
                      hasBuffer |-> hasBuffer, length |-> length,
                      copyEnd |-> IF hasBuffer THEN 8 + length ELSE 0])

\* ---------------------------------- t56_write_jedec_row, t56_read_jedec_row
\* The size argument (a bit count) of the JEDEC row operations.
JedecSizes == {1, 8, 9, 256, 257, 448, 449}

JedecRows == {0, 5}

JedecFlags == {0, 1}

\* Lines 482-488.
write_jedec_msg(protocol_id, row, flags, size) ==
    LET m0 == Put(Buffer(64, 0), 0, <<T56_WRITE_JEDEC, protocol_id, size % 256>>)
        m4 == Put(m0, 4, <<row, flags>>)
    IN  Put(m4, 8, Payload((size + 7) \div 8))

\* Lines 499-504.
read_jedec_msg(protocol_id, row, flags, size) ==
    LET m0 == Put(Buffer(32, 0), 0, <<T56_READ_JEDEC, protocol_id, size % 256>>)
    IN  Put(m0, 4, <<row, flags>>)

WriteJedecWire ==
    \E protocol_id \in ProtocolIds, row \in JedecRows, flags \in JedecFlags, size \in JedecSizes :
        WireStep([op |-> "write_jedec_row",
                  msg |-> write_jedec_msg(protocol_id, row, flags, size),
                  sendLen |-> 64, recvLen |-> 0, copyEnd |-> 8 + ((size + 7) \div 8),
                  size |-> size])

ReadJedecWire ==
    \E protocol_id \in ProtocolIds, row \in JedecRows, flags \in JedecFlags, size \in JedecSizes :
        WireStep([op |-> "read_jedec_row",
                  msg |-> read_jedec_msg(protocol_id, row, flags, size),
                  sendLen |-> 8, recvLen |-> 32, copyEnd |-> (size + 7) \div 8,
                  size |-> size])

\* ----------------------------------------------------- t56_get_ovc_status
\* The 32 bytes of the status response.
StatusResponses ==
    {[i \in 1..32 |-> i], [i \in 1..32 |-> IF i = 13 THEN 0 ELSE 255 - i]}

\* What *ovc and *status hold before the call.
OldOvc == 170

OldStatus == [error |-> 254, address |-> U32(43690, 43690), c1 |-> 43690, c2 |-> 43690]

\* Lines 465-469 with the address read from offset 4.
ovc_status_decode_address_at_4(resp) ==
    [error |-> resp[1],
     address |-> load_int(Slice(resp, 4, 4), 4, MP_LITTLE_ENDIAN),
     c1 |-> load_int(Slice(resp, 2, 2), 2, MP_LITTLE_ENDIAN).lo,
     c2 |-> load_int(Slice(resp, 4, 2), 2, MP_LITTLE_ENDIAN).lo]

\* Lines 465-469.
ovc_status_decode(resp) ==
    [error |-> resp[1],
     address |-> load_int(Slice(resp, 8, 4), 4, MP_LITTLE_ENDIAN),
     c1 |-> load_int(Slice(resp, 2, 2), 2, MP_LITTLE_ENDIAN).lo,
     c2 |-> load_int(Slice(resp, 4, 2), 2, MP_LITTLE_ENDIAN).lo]

\* Lines 458-459.
ovc_status_msg == Put(Buffer(32, 0), 0, <<T56_REQUEST_STATUS>>)

\* The handler does not dispatch on custom_protocol; it only reads the flag.
OvcStatusWire ==
    \E hasStatus \in BOOLEAN, rcSend \in RCs, rcRecv \in RCs, resp \in StatusResponses :
        LET r == t56_get_ovc_status(hasStatus, target.custom_protocol, rcSend, rcRecv, resp[13])
        IN  /\ device = "target"
            /\ wire' = [calls |-> r.calls, op |-> "get_ovc_status", ret |-> r.ret,
                        hasStatus |-> hasStatus, cp |-> target.custom_protocol,
                        msg |-> ovc_status_msg, sendLen |-> 8, recvLen |-> 32,
                        resp |-> resp,
                        ovc_out |-> IF r.ret = EXIT_SUCCESS THEN r.ovc ELSE OldOvc,
                        status_out |-> IF r.status THEN ovc_status_decode(resp) ELSE OldStatus]
            /\ UNCHANGED <<bitstream_uploaded, device, target, last, calls, up_at_open,
                           uploads, begins, e2e, fpga>>

NextWire ==
    \/ EraseWire
    \/ BeginWire
    \/ ChipIdWire
    \/ ReadBlockWire
    \/ ReadFusesWire
    \/ WriteFusesWire
    \/ WriteJedecWire
    \/ ReadJedecWire
    \/ OvcStatusWire

SpecWire == Init /\ [][NextWire]_vars

\* C12: every message buffer a native operation hands to the transport is
\* zero-initialized, so each sent byte the operation does not assign is zero,
\* the 64-byte begin message and the 8-byte chip-ID request included.
C12_UnsetBytesZero ==
    wire.op # "none" =>
        \A off \in 0..(wire.sendLen - 1) :
            off \notin wire.msg.set => Byte(wire.msg, off) = 0

\* C15: in the begin message a raw voltage with (raw & 0xf0) = 0xf0 puts the
\* low byte at offset 22 and leaves offset 21 zero; otherwise offset 21 holds
\* the low nibble and offset 22 the high nibble of the low byte; with bit 31
\* set offset 22 holds bits 16..19 of the raw value whatever the nibble test.
C15_VoltagePacking ==
    wire.op = "begin_transaction" =>
        LET raw == wire.raw
            low == raw.lo % 256
            bit31 == raw.hi >= 32768
        IN  /\ bit31 => Byte(wire.msg, 22) = raw.hi % 16
            /\ low >= 240 =>
                  /\ Byte(wire.msg, 21) = 0
                  /\ ~bit31 => Byte(wire.msg, 22) = low
            /\ low < 240 =>
                  /\ Byte(wire.msg, 21) = low % 16
                  /\ ~bit31 => Byte(wire.msg, 22) = (low \div 16) * 16

\* The value of the first n of four bytes read least significant first /
\* most significant first, as 16-bit halves.
ValueLE(bs, n) ==
    [hi |-> (IF n >= 3 THEN bs[3] ELSE 0) + (IF n >= 4 THEN bs[4] * 256 ELSE 0),
     lo |-> (IF n >= 1 THEN bs[1] ELSE 0) + (IF n >= 2 THEN bs[2] * 256 ELSE 0)]

ValueBE(bs, n) ==
    CASE n = 0 -> [hi |-> 0, lo |-> 0]
      [] n = 1 -> [hi |-> 0, lo |-> bs[1]]
      [] n = 2 -> [hi |-> 0, lo |-> bs[1] * 256 + bs[2]]
      [] n = 3 -> [hi |-> bs[1], lo |-> bs[2] * 256 + bs[3]]
      [] OTHER -> [hi |-> bs[1] * 256 + bs[2], lo |-> bs[3] * 256 + bs[4]]

\* C16: native get_chip_id decodes the ID from the response bytes at offset
\* 2, little-endian when the type byte is 3 or 4 and big-endian otherwise,
\* over min(chip_id_bytes_count, 4) bytes; a count of zero yields 0.
C16_ChipIdDecode ==
    wire.op = "get_chip_id" =>
        LET n == IF wire.count > 4 THEN 4 ELSE wire.count
            bs == <<wire.resp[3], wire.resp[4], wire.resp[5], wire.resp[6]>>
        IN  /\ wire.type_out = wire.resp[1]
            /\ wire.count = 0 => wire.device_id = [hi |-> 0, lo |-> 0]
            /\ wire.device_id =
                  IF wire.resp[1] \in {3, 4} THEN ValueLE(bs, n) ELSE ValueBE(bs, n)

\* C16 witness: type 4 with a two-byte ID 0x12 0x34 decoded to 0x3412, where
\* big-endian would have given 0x1234.
C16_Witness ==
    /\ wire.op = "get_chip_id"
    /\ wire.resp[1] = 4
    /\ wire.count = 2
    /\ wire.resp[3] = 18
    /\ wire.resp[4] = 52
    /\ wire.device_id = [hi |-> 0, lo |-> 13330]

\* C13: native read_block with length N sends one 8-byte header holding the
\* opcode, N as two little-endian bytes at offset 2 and the address as four
\* little-endian bytes at offset 4, then issues exactly one receive, of N + 16
\* bytes, into the caller's buffer.
C13_ReadBlockHeader ==
    wire.op = "read_block" =>
        /\ wire.sendLen = 8
        /\ Byte(wire.msg, 0) = read_block_opcode(wire.type)
        /\ Byte(wire.msg, 2) = wire.len % 256
        /\ Byte(wire.msg, 3) = wire.len \div 256
        /\ Byte(wire.msg, 4) = wire.addr.lo % 256
        /\ Byte(wire.msg, 5) = wire.addr.lo \div 256
        /\ Byte(wire.msg, 6) = wire.addr.hi % 256
        /\ Byte(wire.msg, 7) = wire.addr.hi \div 256
        /\ wire.calls[1].call = "msg_send" /\ wire.calls[1].len = 8
        /\ CountCalls(wire.calls, "msg_send") = 1
        /\ wire.calls[1].rc = 0 =>
              /\ Len(wire.calls) = 2
              /\ wire.calls[2].call = "msg_recv"
              /\ wire.calls[2].buf = "buf"
              /\ wire.calls[2].len = wire.len + 16
              /\ wire.recvLen = wire.len + 16

\* C13 witness: 258 bytes read at 0x12345678: header bytes 02 01 78 56 34 12
\* and one receive of 274 bytes.
C13_Witness ==
    /\ wire.op = "read_block"
    /\ wire.len = 258
    /\ wire.addr = [hi |-> 4660, lo |-> 22136]
    /\ Slice(wire.msg.b, 2, 6) = <<2, 1, 120, 86, 52, 18>>
    /\ Len(wire.calls) = 2
    /\ wire.calls[2].len = 274

\* C14: native write_fuses sends one 64-byte message; with a buffer the four
\* little-endian bytes at offset 4 hold code_memory_size - 0x38 modulo 2^32
\* and the caller's bytes start at offset 8; without a buffer only the opcode
\* byte is set and the rest is zero. read_fuses carries code_memory_size as
\* it is.
C14_FuseSizeField ==
    LET cms == wire.cms
        adj == IF cms.lo >= 56
               THEN [hi |-> cms.hi, lo |-> cms.lo - 56]
               ELSE [hi |-> IF cms.hi = 0 THEN 65535 ELSE cms.hi - 1, lo |-> cms.lo + 65480]
        Field(v) == <<v.lo % 256, v.lo \div 256, v.hi % 256, v.hi \div 256>>
    IN  /\ wire.op = "write_fuses" /\ wire.copyEnd <= 64 =>
              /\ wire.sendLen = 64 /\ Len(wire.msg.b) = 64
              /\ Byte(wire.msg, 0) = write_fuses_opcode(wire.type)
              /\ wire.hasBuffer =>
                    /\ Slice(wire.msg.b, 4, 4) = Field(adj)
                    /\ \A i \in 1..wire.length : Byte(wire.msg, 7 + i) = 100 + i
              /\ ~wire.hasBuffer => \A off \in 1..63 : Byte(wire.msg, off) = 0
        /\ wire.op = "read_fuses" => Slice(wire.msg.b, 4, 4) = Field(cms)

\* C14 witness: write_fuses with a buffer and code_memory_size 0x37, whose
\* size field wraps to 0xffffffff.
C14_Witness ==
    /\ wire.op = "write_fuses"
    /\ wire.hasBuffer
    /\ wire.cms = [hi |-> 0, lo |-> 55]
    /\ wire.length = 56
    /\ Slice(wire.msg.b, 4, 4) = <<255, 255, 255, 255>>
    /\ Byte(wire.msg, 63) = 156

\* C20: for every argument value the fuse and JEDEC-row operations copy only
\* within their message buffer: read_fuses and write_fuses within bytes
\* 8..63, write_jedec_row ceil(size/8) bytes into bytes 8..63, read_jedec_row
\* ceil(size/8) bytes from the 32-byte response.
C20_CopiesInBounds ==
    wire.op \in {"read_fuses", "write_fuses", "write_jedec_row", "read_jedec_row"} =>
        wire.copyEnd <= Len(wire.msg.b)

\* C18: get_ovc_status sends one 8-byte status request and receives 32
\* bytes; on success it writes response byte 12 to ovc_out, and writes the
\* status record (error from byte 0, address from offset 8, counters from
\* offsets 2 and 4) only when status_out is given and the protocol is native;
\* with custom_protocol set the record is unchanged, and when a transport
\* call fails neither output is written.
C18_OvcStatusFrame ==
    wire.op = "get_ovc_status" =>
        LET ok == Len(wire.calls) = 2 /\ wire.calls[1].rc = 0 /\ wire.calls[2].rc = 0
            r == wire.resp
        IN  /\ wire.calls[1].call = "msg_send"
            /\ wire.calls[1].op = T56_REQUEST_STATUS
            /\ wire.calls[1].len = 8
            /\ Byte(wire.msg, 0) = T56_REQUEST_STATUS
            /\ CountCalls(wire.calls, "msg_send") = 1
            /\ wire.calls[1].rc = 0 =>
                  /\ Len(wire.calls) = 2
                  /\ wire.calls[2].call = "msg_recv"
                  /\ wire.calls[2].len = 32
            /\ (wire.ret = EXIT_SUCCESS) = ok
            /\ ok => wire.ovc_out = r[13]
            /\ ok /\ wire.hasStatus /\ ~wire.cp =>
                  wire.status_out =
                      [error |-> r[1],
                       address |-> [hi |-> r[11] + 256 * r[12], lo |-> r[9] + 256 * r[10]],
                       c1 |-> r[3] + 256 * r[4],
                       c2 |-> r[5] + 256 * r[6]]
            /\ wire.cp \/ ~wire.hasStatus => wire.status_out = OldStatus
            /\ ~ok => wire.ovc_out = OldOvc /\ wire.status_out = OldStatus

\* C18 witness: a successful poll on a custom-protocol device with a status
\* record supplied: the overcurrent byte is delivered, the record is not.
C18_Witness ==
    /\ wire.op = "get_ovc_status"
    /\ wire.ret = EXIT_SUCCESS
    /\ wire.cp /\ wire.hasStatus
    /\ wire.ovc_out = 13
    /\ wire.status_out = OldStatus

\* C17: the "bitstream uploaded" flag becomes true only when the algorithm
\* was resolved and both the header send and the payload send succeeded; after
\* a failed resolution, header send or payload send it stays false, so a
\* begin_transaction that finds it false attempts the upload again.
C17_FlagOnFullSuccess ==
    last.op # "none" =>
        LET HeaderSent == \E i \in DOMAIN calls :
                /\ calls[i].call = "msg_send" /\ calls[i].buf = "msg"
                /\ calls[i].op = T56_WRITE_BITSTREAM /\ calls[i].rc = 0
        IN  /\ last.up0 => bitstream_uploaded
            /\ ~last.up0 =>
                  (bitstream_uploaded <=>
                      last.resolved /\ HeaderSent /\ CompletedUploads(calls) = 1)
            /\ last.op = "begin_transaction" /\ ~last.up0 =>
                  \/ ~last.resolved /\ calls = <<>>
                  \/ /\ last.resolved
                     /\ Len(calls) >= 1
                     /\ calls[1].call = "msg_send"
                     /\ calls[1].op = T56_WRITE_BITSTREAM
                     /\ calls[1].len = 8

\* C17 witness: a begin_transaction whose payload send failed after the
\* header went out: the flag is still false.
C17_Witness ==
    /\ last.op = "begin_transaction"
    /\ ~last.up0
    /\ last.resolved
    /\ Len(calls) = 2
    /\ calls[1].rc = 0
    /\ calls[2].buf = "bitstream"
    /\ calls[2].rc # 0
    /\ ~bitstream_uploaded

\* C19: over any interleaving of spi_autodetect and begin_transaction in one
\* session, whenever a native begin message or an autodetect message is sent,
\* the bitstream on the device is the algorithm of the descriptor in effect:
\* the synthetic SPI descriptor for autodetect, the target device for begin.
C19_BitstreamMatchesDescriptor ==
    LET Sent(opcode) == \E i \in DOMAIN calls :
            calls[i].call = "msg_send" /\ calls[i].buf = "msg" /\ calls[i].op = opcode
    IN  /\ last.op = "begin_transaction" /\ Sent(T56_BEGIN_TRANS) => fpga = "target"
        /\ last.op = "spi_autodetect" /\ Sent(T56_AUTODETECT) =>
              fpga = IF last.type = 0 THEN "SPI25F11" ELSE "SPI25F21"

====
